---- MODULE Spec2Model ----
(***************************************************************************)
(* GelMemoryGraph (mem0-ts/src/oss/src/memory/gel_graph_memory.ts) over    *)
(* the graph types of dbschema/mem0.gel: the store holds entity rows and   *)
(* relation rows; add, search, getAll and deleteAll are the calls of the   *)
(* class.  The LLM and the embedder are oracles: their outputs are drawn   *)
(* from small sets.  A call advances one store query at a time.            *)
(***************************************************************************)
EXTENDS Integers, Sequences, FiniteSets, TLC

VARIABLES
    entities,   \* rows of <collection>GraphEntity
    relations,  \* rows of <collection>GraphRelation
    nextId,     \* next fresh object id of the store
    now,        \* datetime_current() of the store
    call,       \* per caller: the frame of its call in flight or last finished
    boot,       \* the provisioned schema and the progress of start-up validation
    vectors     \* the flat memory collection of the Gel store adapter

vars == <<entities, relations, nextId, now, call, boot, vectors>>

(*************************** bounds and domains ****************************)
\* relation write queries in one run
MaxWrites == 2
\* longest list of relations the derivation oracle returns
MaxRel == 2
\* longest deletion list the deletion oracle returns
MaxDel == 1
\* longest entity list the extraction oracle returns
MaxEnt == 1

Users == {"u1", "u2"}
RawNames == {<<"a">>, <<"P", " ", "z">>}
RawRelTypes == {<<"L", " ", "e">>}
RawEntityTypes == {<<"P">>}
\* the embedding models a run may meet (the embedder may change between calls)
Models == {"m1", "m2"}
\* the outcome of an embed() that rejected or lost the race to its timeout
EmbedFail == <<>>
Callers == {"c1", "c2"}
NoTime == -1

SeqsUpTo(S, n) == UNION {[1..k -> S] : k \in 0..n}

(***************************** pure helpers ********************************)
UpperToLower == [A |-> "a", P |-> "p", L |-> "l", Z |-> "z", E |-> "e"]

toLowerCase(s) ==
    [i \in 1..Len(s) |->
        IF s[i] \in DOMAIN UpperToLower THEN UpperToLower[s[i]] ELSE s[i]]

\* String.replace(/ /g, "_")
replaceSpaces(s) == [i \in 1..Len(s) |-> IF s[i] = " " THEN "_" ELSE s[i]]

\* a key form that lowercases and keeps the spaces
lowercaseOnly(s) == toLowerCase(s)

normalizeToken(s) == replaceSpaces(toLowerCase(s))

\* a field the oracle's JSON does not have
Undefined == <<"undefined">>
\* obj[key] = ...: the key as a property name
toPropertyKey(v) ==
    IF v = Undefined THEN <<"u", "n", "d", "e", "f", "i", "n", "e", "d">> ELSE v
\* what a stage hands on: its value, or ok = FALSE when it raised
Raised == [ok |-> FALSE, value |-> <<>>]
Value(v) == [ok |-> TRUE, value |-> v]

\* item.source.toLowerCase() raises a TypeError on a missing field
removeSpacesFromEntities(entityList) ==
    IF \E i \in 1..Len(entityList) :
            Undefined \in {entityList[i].source, entityList[i].relationship,
                           entityList[i].destination}
    THEN Raised
    ELSE Value([i \in 1..Len(entityList) |->
                [source |-> normalizeToken(entityList[i].source),
                 relationship |-> normalizeToken(entityList[i].relationship),
                 destination |-> normalizeToken(entityList[i].destination)]])

\* a JS object with string keys: the entries in insertion order
mapKeys(m) == [i \in 1..Len(m) |-> m[i][1]]
mapHas(m, k) == \E i \in 1..Len(m) : m[i][1] = k
mapGet(m, k) == m[CHOOSE i \in 1..Len(m) : m[i][1] = k][2]
mapPut(m, k, v) ==
    IF mapHas(m, k)
    THEN [i \in 1..Len(m) |-> IF m[i][1] = k THEN <<k, v>> ELSE m[i]]
    ELSE Append(m, <<k, v>>)

RECURSIVE fromEntries(_, _)
fromEntries(entries, acc) ==
    IF entries = <<>> THEN acc
    ELSE fromEntries(Tail(entries), mapPut(acc, Head(entries)[1], Head(entries)[2]))

\* the extraction oracle's response: plain text, or an extract_entities tool call
\* (response kinds: "text" a string, "notool" no toolCalls, "badjson" arguments
\* that do not parse, "nolist" arguments without the list, "tool" a list).
\* The try block catches what the parsing raises; the normalisation after it
\* calls v.toLowerCase() on every value of the map.
retrieveNodesFromData(resp) ==
    LET items == IF resp.kind = "tool" THEN resp.entities ELSE <<>>
        entityTypeMap ==
            fromEntries([i \in 1..Len(items) |->
                            <<toPropertyKey(items[i].entity), items[i].entity_type>>],
                        <<>>)
    IN  IF \E i \in 1..Len(entityTypeMap) : entityTypeMap[i][2] = Undefined
        THEN Raised
        ELSE Value(fromEntries([i \in 1..Len(entityTypeMap) |->
                                    <<normalizeToken(entityTypeMap[i][1]),
                                      normalizeToken(entityTypeMap[i][2])>>], <<>>))

\* the JS values an isPrivate field may hold: the two booleans, a missing
\* field, a non-empty string, a zero
JsValues == {"true", "false", "undefined", "'yes'", "0"}
Falsy == {"false", "undefined", "0", "null", "''"}
truthy(v) == v \notin Falsy
\* v || false
orFalse(v) == IF truthy(v) THEN v ELSE "false"

\* the classification oracle's response: a throw of the call, plain text, a
\* tool call whose arguments do not parse, or a tool call with a relations
\* list; relation i takes the flag of the i-th classified relation
checkRelationsPrivacy(ents, resp) ==
    IF Len(ents) = 0 THEN ents
    ELSE LET classifiedRelations == IF resp.kind = "tool" THEN resp.relations ELSE <<>>
         IN  [i \in 1..Len(ents) |->
                [source |-> ents[i].source,
                 relationship |-> ents[i].relationship,
                 destination |-> ents[i].destination,
                 metadata |->
                    [isPrivate |->
                        IF resp.kind \in {"throw", "badjson"} THEN "false"
                        ELSE IF i <= Len(classifiedRelations)
                             THEN orFalse(classifiedRelations[i]) ELSE "false"]]]

\* JSON.parse of the tool call's arguments is not inside a try block
establishNodesRelationsFromData(relResp, privResp) ==
    LET extracted == IF relResp.kind = "tool" THEN relResp.entities ELSE <<>>
        cleaned == removeSpacesFromEntities(extracted)
    IN  IF relResp.kind = "badjson" \/ ~ cleaned.ok THEN Raised
        ELSE Value(checkRelationsPrivacy(cleaned.value, privResp))

(******************************* the store *********************************)
EntityById(ents, id) == CHOOSE e \in ents : e.id = id

\* embeddingModel.embed(text) under one model: vectors of norm 5 (a scaled
\* unit circle), by the first letter of the text
embed(model, text) ==
    IF Head(text) = "a"
    THEN (IF model = "m1" THEN <<5, 0>> ELSE <<4, 3>>)
    ELSE (IF model = "m1" THEN <<0, 5>> ELSE <<0 - 3, 4>>)

\* what embed(text) may give a caller: a vector of some model, or a failure
EmbedOutcomes(models, text) == {embed(m, text) : m \in models} \cup {EmbedFail}

Dot(a, b) == a[1] * b[1] + a[2] * b[2]
\* ext::pgvector::cosine_distance, times 100, for vectors of norm 5
cosine_distance(a, b) == 100 - (100 * Dot(a, b)) \div 25

\* this.threshold = 0.7, times 100
threshold == 70
\* limit = 100, the default of _searchGraphDb, search and getAll
defaultLimit == 100

RECURSIVE SortByKey(_, _)
\* the rows of S as a sequence, least key first (the keys are distinct)
SortByKey(S, key) ==
    IF S = {} THEN <<>>
    ELSE LET m == CHOOSE x \in S : \A y \in S \ {x} : key[x] < key[y]
         IN  <<m>> \o SortByKey(S \ {m}, key)

\* the store's own row order
ById(S) == SortByKey(S, [x \in S |-> x.id])

Take(s, n) == IF Len(s) <= n THEN s ELSE SubSeq(s, 1, n)

RECURSIVE Flatten(_)
Flatten(ss) == IF ss = <<>> THEN <<>> ELSE Head(ss) \o Flatten(Tail(ss))

EntityIds(ents) == {e.id : e \in ents}

\* a neighbor query that leaves the user_id filter out
similar_entities_any(ents, userId) == ents

\* similar_entities of the neighbor query: filter .user_id = <str>$user_id
\* (every stored entity has an embedding)
similar_entities(ents, userId) == {e \in ents : e.user_id = userId}

\* the EdgeQL query of _searchGraphDb for one embedded node, then the two loops
\* that flatten its rows (out_relations, then in_relations, entity by entity)
neighborQuery(ents, rels, nEmbedding, userId, limit) ==
    LET hits == {e \in similar_entities(ents, userId) :
                    cosine_distance(e.embedding, nEmbedding) >= threshold}
        \* order by .cosine_similarity desc
        key == [e \in hits |->
                    (0 - cosine_distance(e.embedding, nEmbedding)) * 1000 + e.id]
        result == Take(SortByKey(hits, key), limit)
        out(e) == ById({r \in rels : r.source = e.id})
        in(e) == ById({r \in rels : r.target = e.id})
        row(e, r) ==
            [source |-> EntityById(ents, r.source).name,
             source_id |-> r.source,
             relationship |-> r.relationship_type,
             relation_id |-> r.id,
             destination |-> EntityById(ents, r.target).name,
             destination_id |-> r.target,
             similarity |-> cosine_distance(e.embedding, nEmbedding),
             metadata |-> r.metadata]
        rows(e) == [i \in 1..Len(out(e)) |-> row(e, out(e)[i])]
                   \o [i \in 1..Len(in(e)) |-> row(e, in(e)[i])]
    IN  Flatten([i \in 1..Len(result) |-> rows(result[i])])

\* a fetch that stops at the first node whose embedding failed
searchGraphDbUntilFailure(ents, rels, nodeList, embeds, userId, limit) ==
    Flatten([i \in 1..Len(nodeList) |->
                IF \E j \in 1..i : embeds[j] = EmbedFail THEN <<>>
                ELSE neighborQuery(ents, rels, embeds[i], userId, limit)])

\* embeds[i] is what embed(nodeList[i]) gave: a vector, or EmbedFail
searchGraphDb(ents, rels, nodeList, embeds, userId, limit) ==
    Flatten([i \in 1..Len(nodeList) |->
                IF embeds[i] = EmbedFail THEN <<>>
                ELSE neighborQuery(ents, rels, embeds[i], userId, limit)])

\* the deletion oracle's response: plain text, or delete_graph_memory tool calls
getDeleteEntitiesFromSearchOutput(resp) ==
    IF resp.kind = "badjson" THEN Raised
    ELSE removeSpacesFromEntities(IF resp.kind = "tool" THEN resp.calls ELSE <<>>)

\* a delete query that leaves the destination name out of its filter
deleteMatchesAnyTarget(ents, rels, item, userId) ==
    {r \in rels :
        /\ EntityById(ents, r.source).name = item.source
        /\ r.relationship_type = item.relationship
        /\ EntityById(ents, r.source).user_id = userId
        /\ EntityById(ents, r.target).user_id = userId}

\* the rows the delete query of _deleteEntities removes for one item
deleteMatches(ents, rels, item, userId) ==
    {r \in rels :
        /\ EntityById(ents, r.source).name = item.source
        /\ EntityById(ents, r.target).name = item.destination
        /\ r.relationship_type = item.relationship
        /\ EntityById(ents, r.source).user_id = userId
        /\ EntityById(ents, r.target).user_id = userId}

\* constraint exclusive on ((.name, .user_id)) of GraphEntityImpl
GraphEntityExclusive(ents) ==
    \A x, y \in ents : (x.name = y.name /\ x.user_id = y.user_id) => x = y

\* constraint exclusive on ((.source, .target, .relationship_type))
GraphRelationExclusive(rels) ==
    \A x, y \in rels :
        (x.source = y.source /\ x.target = y.target
            /\ x.relationship_type = y.relationship_type) => x = y

Known == <<"k", "n", "o", "w", "n">>
Unknown == <<"u", "n", "k", "n", "o", "w", "n">>

\* an update that also stamps created_at
updateExistingCreated(e, emb, t) ==
    [e EXCEPT !.embedding = emb, !.updated_at = t, !.created_at = t]

\* update existing set { embedding := ..., updated_at := datetime_current() }
updateExisting(e, emb, t) == [e EXCEPT !.embedding = emb, !.updated_at = t]

\* an entity query whose existing is filtered by name alone
entityQueryAnyScope(seen, name, type, emb, userId, id, t) ==
    LET existing == {e \in seen : e.name = name}
    IN  IF existing = {}
        THEN [inserted |-> {[id |-> id, name |-> name, entity_type |-> type,
                             embedding |-> emb, user_id |-> userId,
                             created_at |-> t, updated_at |-> NoTime]},
              updated |-> {}]
        ELSE [inserted |-> {}, updated |-> EntityIds(existing)]

\* sourceQuery and destQuery: insert the entity if the statement sees none with
\* this name and user_id, else update the ones it sees
entityQuery(seen, name, type, emb, userId, id, t) ==
    LET existing == {e \in seen : e.name = name /\ e.user_id = userId}
    IN  IF existing = {}
        THEN [inserted |-> {[id |-> id, name |-> name, entity_type |-> type,
                             embedding |-> emb, user_id |-> userId,
                             created_at |-> t, updated_at |-> NoTime]},
              updated |-> {}]
        ELSE [inserted |-> {}, updated |-> EntityIds(existing)]

\* a relationQuery that inserts without looking for the stored relation
existingRelationNone(seenR, source_entity, dest_entity, relationship) == {}

\* existing of relationQuery: the relations the statement sees between the two
\* entities with this relationship_type
existingRelation(seenR, source_entity, dest_entity, relationship) ==
    {r \in seenR : /\ r.source \in source_entity
                   /\ r.target \in dest_entity
                   /\ r.relationship_type = relationship}

\* relationQuery as one statement over the rows it sees: what it inserts and updates
relationEffect(seenE, seenR, item, userId, entityTypeMap, sEmb, dEmb, id, t) ==
    LET sourceType == IF mapHas(entityTypeMap, item.source)
                      THEN mapGet(entityTypeMap, item.source) ELSE Known
        destinationType == IF mapHas(entityTypeMap, item.destination)
                           THEN mapGet(entityTypeMap, item.destination) ELSE Unknown
        src == entityQuery(seenE, item.source, sourceType, sEmb, userId, id, t)
        dst == entityQuery(seenE, item.destination, destinationType, dEmb, userId,
                           id + 1, t)
        source_entity == EntityIds(src.inserted) \cup src.updated
        dest_entity == EntityIds(dst.inserted) \cup dst.updated
        existing == existingRelation(seenR, source_entity, dest_entity,
                                     item.relationship)
    IN  [entIns |-> src.inserted \cup dst.inserted,
         srcUpd |-> src.updated,
         dstUpd |-> dst.updated,
         relIns |-> IF existing # {} THEN {}
                    ELSE {[id |-> id + 2, source |-> a, target |-> b,
                           relationship_type |-> item.relationship,
                           metadata |-> item.metadata, created_at |-> t,
                           creator |-> userId] :
                                a \in source_entity, b \in dest_entity},
         relationship |-> IF existing # {} THEN {r.id : r \in existing} ELSE {id + 2}]

QueryError == [ok |-> FALSE, entities |-> {}, relations |-> {}, relationship |-> {}]

\* an upsert that gives the existing relation the metadata of the new proposal
selectExistingReclassified(r, metadata) == [r EXCEPT !.metadata = metadata]

\* else (select existing): the relation found is returned as it is
selectExisting(r, metadata) == r

\* one attempt of relationQuery: the statement read seenE/seenR and its writes
\* land on curE/curR.  An entity updated by both halves keeps either embedding.
relationAttempt(seenE, seenR, curE, curR, item, userId, entityTypeMap, sEmb, dEmb, id, t) ==
    LET eff == relationEffect(seenE, seenR, item, userId, entityTypeMap,
                              sEmb, dEmb, id, t)
        picks == IF eff.srcUpd \cap eff.dstUpd = {} THEN {sEmb} ELSE {sEmb, dEmb}
        upd(e, pick) ==
            IF e.id \in eff.srcUpd \cap eff.dstUpd
            THEN updateExisting(e, pick, t)
            ELSE IF e.id \in eff.srcUpd THEN updateExisting(e, sEmb, t)
            ELSE IF e.id \in eff.dstUpd THEN updateExisting(e, dEmb, t)
            ELSE e
        written == {[ok |-> TRUE,
                     entities |-> {upd(e, pick) : e \in curE} \cup eff.entIns,
                     relations |->
                        {IF eff.relIns = {} /\ r.id \in eff.relationship
                         THEN selectExisting(r, item.metadata) ELSE r : r \in curR}
                            \cup eff.relIns,
                     relationship |-> eff.relationship] : pick \in picks}
    IN  {IF GraphEntityExclusive(w.entities) /\ GraphRelationExclusive(w.relations)
         THEN w ELSE QueryError : w \in written}

\* client.query(relationQuery): a statement whose rows changed under it is run
\* again by the client; one that hits an exclusive constraint against rows
\* written since it read is either rejected or, when the store reports the
\* conflict as a serialization failure, run again
relationQuery(seenE, seenR, curE, curR, item, userId, entityTypeMap, sEmb, dEmb, id, t) ==
    LET eff == relationEffect(seenE, seenR, item, userId, entityTypeMap,
                              sEmb, dEmb, id, t)
        first == relationAttempt(seenE, seenR, curE, curR, item, userId,
                                 entityTypeMap, sEmb, dEmb, id, t)
        again == relationAttempt(curE, curR, curE, curR, item, userId,
                                 entityTypeMap, sEmb, dEmb, id, t)
        stale == ~ ((eff.srcUpd \cup eff.dstUpd) \subseteq EntityIds(curE))
        same == seenE = curE /\ seenR = curR
    IN  IF same THEN first
        ELSE IF stale THEN again
        ELSE IF QueryError \in first THEN first \cup again
        ELSE first

(****************************** read calls *********************************)
\* a getAll that never skips
skipPrivateNever(filterPrivate, relation) == FALSE

\* filters.filterPrivate === true && relation.metadata?.isPrivate
skipPrivate(filterPrivate, relation) ==
    filterPrivate = "true" /\ truthy(relation.metadata.isPrivate)

\* the rows getAll walks: the entities of the scope, at most limit of them in
\* the store's order, each with its outgoing relations; private ones are
\* skipped when filters.filterPrivate === true
getAllRows(ents, rels, userId, filterPrivate, limit) ==
    LET result == Take(ById({e \in ents : e.user_id = userId}), limit)
        out(e) == ById({r \in rels : r.source = e.id})
        kept(e) == SelectSeq(out(e), LAMBDA r : ~ skipPrivate(filterPrivate, r))
    IN  Flatten([i \in 1..Len(result) |->
                    [j \in 1..Len(kept(result[i])) |->
                        [entity |-> result[i], relation |-> kept(result[i])[j]]]])

getAll(ents, rels, userId, filterPrivate, limit) ==
    LET rows == getAllRows(ents, rels, userId, filterPrivate, limit)
    IN  [i \in 1..Len(rows) |->
            [source |-> rows[i].entity.name,
             relationship |-> rows[i].relation.relationship_type,
             target |-> EntityById(ents, rows[i].relation.target).name]]

\* BM25 relevance of one document for the query tokens: matching token pairs
bm25Score(doc, query) ==
    Cardinality({<<i, j>> \in (1..Len(doc)) \X (1..Len(query)) : doc[i] = query[j]})

\* BM25.search: the documents by descending score, equal scores in corpus order
bm25Search(docs, query) ==
    LET idx == 1..Len(docs)
        key == [i \in idx |-> (0 - bm25Score(docs[i], query)) * 1000 + i]
        order == SortByKey(idx, key)
    IN  [k \in 1..Len(order) |-> docs[order[k]]]

\* a slice that keeps one more
topKWider == 5 + 1

\* rerankedResults = bm25.search(tokenizedQuery).slice(0, 5)
topK == 5

\* a search that hands the reranker everything it fetched
filterOutputNone(searchOutput, filterPrivate) == searchOutput

\* filteredOutput of search
filterOutput(searchOutput, filterPrivate) ==
    IF filterPrivate = "true"
    THEN SelectSeq(searchOutput, LAMBDA item : ~ truthy(item.metadata.isPrivate))
    ELSE searchOutput

\* the candidates search hands to the reranker
searchCandidates(ents, rels, userId, filterPrivate, entityTypeMap, embeds) ==
    filterOutput(searchGraphDb(ents, rels, mapKeys(entityTypeMap), embeds,
                               userId, defaultLimit), filterPrivate)

search(ents, rels, query, userId, filterPrivate, entityTypeMap, embeds) ==
    LET filteredOutput == searchCandidates(ents, rels, userId, filterPrivate,
                                           entityTypeMap, embeds)
        searchOutputsSequence ==
            [i \in 1..Len(filteredOutput) |->
                <<filteredOutput[i].source, filteredOutput[i].relationship,
                  filteredOutput[i].destination>>]
        rerankedResults == Take(bm25Search(searchOutputsSequence, query), topK)
    IN  [i \in 1..Len(rerankedResults) |->
            [source |-> rerankedResults[i][1],
             relationship |-> rerankedResults[i][2],
             destination |-> rerankedResults[i][3]]]

(**************************** deleteAll queries ****************************)
\* a relation delete without its filter
deleteAllRelationsEvery(ents, rels, userId) == {}

\* delete GraphRelation filter .source.user_id = u or .target.user_id = u
deleteAllRelations(ents, rels, userId) ==
    {r \in rels : ~ (\/ EntityById(ents, r.source).user_id = userId
                     \/ EntityById(ents, r.target).user_id = userId)}

\* delete GraphEntity filter .user_id = u: rejected while a relation still
\* links to one of the rows (source and target are required links)
deleteAllEntities(ents, rels, userId) ==
    LET doomed == {e \in ents : e.user_id = userId}
    IN  IF \E r \in rels : r.source \in EntityIds(doomed) \/ r.target \in EntityIds(doomed)
        THEN [ok |-> FALSE, entities |-> ents]
        ELSE [ok |-> TRUE, entities |-> ents \ doomed]

(************************** oracle responses *******************************)
\* degraded: the response may be unparsable or lack a list or a field
OrMissing(S, degraded) == IF degraded THEN S \cup {Undefined} ELSE S
EntityItems(names, degraded) ==
    [entity : OrMissing(names, degraded),
     entity_type : OrMissing(RawEntityTypes, degraded)]
RelationItems(degraded) ==
    [source : OrMissing(RawNames, degraded),
     relationship : OrMissing(RawRelTypes, degraded),
     destination : OrMissing(RawNames, degraded)]
EmptyKinds(degraded) ==
    IF degraded THEN {"text", "notool", "badjson", "nolist"} ELSE {"text"}

ExtractResponses(names, n, degraded) ==
    {[kind |-> k, entities |-> <<>>] : k \in EmptyKinds(degraded)}
        \cup {[kind |-> "tool", entities |-> l] :
                    l \in SeqsUpTo(EntityItems(names, degraded), n)}
RelationResponses(n, degraded) ==
    {[kind |-> k, entities |-> <<>>] : k \in EmptyKinds(degraded)}
        \cup {[kind |-> "tool", entities |-> l] :
                    l \in SeqsUpTo(RelationItems(degraded), n)}
\* which of the n relations sent each of the k classified items is about (its
\* source, relation and target are theirs): aligned, the i-th item is about the
\* i-th relation; otherwise the items come in any order and may leave some out
Abouts(n, k, aligned) ==
    IF aligned THEN {[i \in 1..k |-> i]}
    ELSE {a \in [1..k -> 1..n] : \A x, y \in 1..k : a[x] = a[y] => x = y}
PrivacyResponses(n, flags, aligned) ==
    {[kind |-> k, relations |-> <<>>, about |-> <<>>] :
        k \in {"throw", "text", "badjson"}}
        \cup UNION {{[kind |-> "tool", relations |-> l, about |-> a] :
                        a \in Abouts(n, Len(l), aligned)} : l \in SeqsUpTo(flags, n)}
DeleteResponses(n, degraded) ==
    {[kind |-> k, calls |-> <<>>] : k \in EmptyKinds(degraded) \ {"nolist"}}
        \cup {[kind |-> "tool", calls |-> l] :
                    l \in SeqsUpTo(RelationItems(degraded), n)}
\* a stage that a raise before it kept from running
NotAsked == [kind |-> "none"]
\* the two embeddings of one relation: Promise.all of two embed() races
EmbedPairs(models, source, destination) ==
    {<<embed(m, source), embed(m, destination)>> : m \in models}
        \cup {<<EmbedFail, y>> : y \in EmbedOutcomes(models, destination)}
        \cup {<<x, EmbedFail>> : x \in EmbedOutcomes(models, source)}
\* the embeddings of a node list, node by node
EmbedLists(models, nodes) ==
    {e \in [1..Len(nodes) ->
                UNION {EmbedOutcomes(models, nodes[i]) : i \in 1..Len(nodes)}] :
        \A i \in 1..Len(nodes) : e[i] \in EmbedOutcomes(models, nodes[i])}
FilterPrivate == {"true", "false", "omitted"}
\* a tokenized query of search
Queries == {<< <<"p", "_", "z">>, <<"l", "_", "e">> >>}

(************************* schema and start-up ******************************)
\* the properties the three collections are expected to have
EntityProps == {"name", "entity_type", "user_id", "embedding", "created_at"}
RelationProps == {"source", "target", "relationship_type", "created_at"}
MemoryProps == {"content", "hash", "embedding", "created_at"}
\* an object type as schema::ObjectType shows it, or no such type
SchemaType(props) == [exists |-> TRUE, properties |-> props]
NoType == [exists |-> FALSE, properties |-> {}]
\* dbschema/mem0.gel applied in full
FullSchema ==
    [entity |-> SchemaType(EntityProps), relation |-> SchemaType(RelationProps),
     memory |-> SchemaType(MemoryProps), embeddingTarget |-> "array<float32>"]
\* the name introspection may report for the target of Memory.embedding: the
\* one createCol compares with, or the scalar type dbschema/mem0.gel declares
EmbeddingTargets == {"array<float32>", "mem0::OpenAIEmbedding"}
\* the full schema, and the ones that lack one type or one expected property
SchemaShapes ==
    {FullSchema}
        \cup {[FullSchema EXCEPT !.entity = NoType],
              [FullSchema EXCEPT !.relation = NoType],
              [FullSchema EXCEPT !.memory = NoType]}
        \cup {[FullSchema EXCEPT !.entity = SchemaType(EntityProps \ {q})] :
                    q \in EntityProps}
        \cup {[FullSchema EXCEPT !.relation = SchemaType(RelationProps \ {q})] :
                    q \in RelationProps}
        \cup {[FullSchema EXCEPT !.memory = SchemaType(MemoryProps \ {q})] :
                    q \in MemoryProps}
\* the provisioned schemas considered
Schemas ==
    {[shape EXCEPT !.embeddingTarget = target] :
        shape \in SchemaShapes, target \in EmbeddingTargets}

\* what an initialization reports: success, or an error whose message names a
\* type and, for a missing property, that property
NoError == [type |-> "", property |-> ""]
Passed == [ok |-> TRUE, error |-> NoError]
SchemaError(type, property) ==
    [ok |-> FALSE, error |-> [type |-> type, property |-> property]]

requiredProps == <<"name", "entity_type", "user_id", "embedding", "created_at">>

validateGraphEntityType(schema) ==
    IF ~ schema.entity.exists THEN SchemaError("GraphEntity", "")
    ELSE LET missing == {i \in 1..Len(requiredProps) :
                            requiredProps[i] \notin schema.entity.properties}
         IN  IF missing # {}
             THEN SchemaError("GraphEntity",
                              requiredProps[CHOOSE i \in missing :
                                                \A j \in missing : i <= j])
             ELSE Passed

\* only the existence of the type is checked
validateGraphRelationType(schema) ==
    IF ~ schema.relation.exists THEN SchemaError("GraphRelation", "") ELSE Passed

validateGraphSchema(schema) ==
    IF ~ validateGraphEntityType(schema).ok THEN validateGraphEntityType(schema)
    ELSE validateGraphRelationType(schema)

\* Gel.createCol: the type and its embedding property are checked
createCol(schema) ==
    IF ~ schema.memory.exists THEN SchemaError("Memory", "")
    ELSE IF "embedding" \notin schema.memory.properties
    THEN SchemaError("Memory", "embedding")
    ELSE IF schema.embeddingTarget # "array<float32>"
    THEN SchemaError("Memory", "embedding")
    ELSE Passed

\* the store compiles a query only if the schema has what the query names
compiles(schema, uses) ==
    /\ schema.entity.exists
    /\ uses.entity \subseteq schema.entity.properties
    /\ uses.relation # {} =>
            /\ schema.relation.exists
            /\ uses.relation \subseteq schema.relation.properties
\* the expected properties each query of the graph memory names
NeighborUses ==
    [entity |-> {"name", "entity_type", "embedding", "user_id"},
     relation |-> {"source", "target", "relationship_type"}]
DeleteUses ==
    [entity |-> {"name", "user_id"},
     relation |-> {"source", "target", "relationship_type"}]
RelationUses == [entity |-> EntityProps, relation |-> RelationProps]
GetAllUses ==
    [entity |-> {"name", "entity_type", "user_id"},
     relation |-> {"source", "target", "relationship_type"}]
DeleteRelationsUses == [entity |-> {"user_id"}, relation |-> {"source", "target"}]
DeleteEntitiesUses == [entity |-> {"user_id"}, relation |-> {}]

\* filters["userId"] of filters that carry no userId
MissingUserId == "undefined"
\* client.query(query, { user_id: undefined, ... }): the client rejects a
\* query whose required <str>$user_id argument has no value
argumentMissing(userId) == userId = MissingUserId
\* a query the client or the store rejects before it touches a row
rejected(userId, uses) == argumentMissing(userId) \/ ~ compiles(boot.schema, uses)

(******************************* the calls *********************************)
NoRows == [entities |-> {}, relations |-> {}]

IdleFrame ==
    [pc |-> "idle", op |-> "none", userId |-> "", filterPrivate |-> "omitted",
     limit |-> 0, query |-> <<>>, entityTypeMap |-> <<>>, embeds |-> <<>>,
     toBeAdded |-> <<>>, searchOutput |-> <<>>, toBeDeleted |-> <<>>, i |-> 0,
     deleted_entities |-> <<>>, added_entities |-> <<>>, result |-> <<>>,
     log |-> <<>>, pre |-> NoRows, seen |-> NoRows, oracle |-> <<>>]

\* the flat memory collection: its rows, its clock, and the last adapter call
\* longest run of adapter calls
MaxClock == 3
MemIds == {"m1", "m2"}
\* a payload: not supplied at all, or an object whose data, hash and user_id
\* keys are each supplied or not; a supplied data may be the empty string
Payloads ==
    {[given |-> FALSE, data |-> "undefined", hash |-> "undefined",
      user_id |-> "undefined"]}
        \cup [given : {TRUE}, data : {"undefined", "''", "t1", "t2"},
              hash : {"undefined", "h2"}, user_id : {"undefined", "u2"}]
\* a vector argument: not supplied, or an embedding
VectorArgs == {"undefined", "e1", "e2"}
NoCall == [op |-> "none", id |-> "", vector |-> "undefined",
           payload |-> CHOOSE q \in Payloads : ~ q.given, at |-> NoTime,
           pre |-> {}, got |-> "undefined"]
NoVectors == [rows |-> {}, clock |-> 1, last |-> NoCall]
Row(rows, id) == CHOOSE r \in rows : r.mem0_id = id
Held(rows) == {r.mem0_id : r \in rows}

\* start-up: the schema the store was provisioned with, and how far the
\* validation of the graph memory and of the flat memory store has come
Booting(schema) ==
    [schema |-> schema, graph |-> "pending", graphError |-> NoError,
     flat |-> "pending", flatError |-> NoError]
Booted == [Booting(FullSchema) EXCEPT !.graph = "ok", !.flat = "ok"]

Init ==
    /\ entities = {}
    /\ relations = {}
    /\ nextId = 1
    /\ now = 1
    /\ call = [c \in Callers |-> IdleFrame]
    /\ boot = Booted
    /\ vectors = NoVectors

\* an instance right after its constructor returned, on any of the schemas
InitBoot ==
    /\ entities = {}
    /\ relations = {}
    /\ nextId = 1
    /\ now = 1
    /\ call = [c \in Callers |-> IdleFrame]
    /\ boot \in {Booting(schema) : schema \in Schemas}
    /\ vectors = NoVectors

\* this.initialize() of the constructor, not awaited: validateGraphSchema
\* completes at some later time
ValidateGraphSchema ==
    /\ boot.graph = "pending"
    /\ boot' = [boot EXCEPT
                    !.graph = IF validateGraphSchema(boot.schema).ok
                              THEN "ok" ELSE "failed",
                    !.graphError = validateGraphSchema(boot.schema).error]
    /\ UNCHANGED <<entities, relations, nextId, now, call, vectors>>

\* Gel.initialize of the flat memory store: createCol
CreateCol ==
    /\ boot.flat = "pending"
    /\ boot' = [boot EXCEPT
                    !.flat = IF createCol(boot.schema).ok THEN "ok" ELSE "failed",
                    !.flatError = createCol(boot.schema).error]
    /\ UNCHANGED <<entities, relations, nextId, now, call, vectors>>

\* the two write stages the other way round
addOrderSwapped == <<"insert", "delete">>

\* add applies its two write stages in this order
addOrder == <<"delete", "insert">>

StageList(f, stage) == IF stage = "delete" THEN f.toBeDeleted ELSE f.toBeAdded

RECURSIVE Advance(_, _, _)
\* the position of add at item i of stage k: that item, else the next stage's
\* first item, else the return
Advance(f, k, i) ==
    IF k > Len(addOrder) THEN [pc |-> "done", i |-> i]
    ELSE IF i <= Len(StageList(f, addOrder[k])) THEN [pc |-> addOrder[k], i |-> i]
    ELSE Advance(f, k + 1, 1)

StageOf(pc) == CHOOSE k \in 1..Len(addOrder) : addOrder[k] = pc

\* the frame after item f.i of the stage f.pc
Proceed(f) ==
    LET to == Advance(f, StageOf(f.pc), f.i + 1)
    IN  [f EXCEPT !.pc = to.pc, !.i = to.i]

\* add up to its first write: the four oracle stages and the neighbor fetch.
\* d bounds the inputs of a specification: its users, the names extracted, the
\* embedding models, the list lengths, the kinds of classification response.
\* With d.record the frame keeps what the oracles and the embedder answered.
AddCall(c, d) ==
    /\ call[c].pc = "idle"
    /\ \E userId \in d.users, derive \in RelationResponses(d.maxRel, d.degraded) :
       \E privacy \in IF Len(derive.entities) = 0
                       THEN {[kind |-> "text", relations |-> <<>>, about |-> <<>>]}
                       ELSE {r \in PrivacyResponses(Len(derive.entities), d.flags,
                                                    d.aligned) :
                                r.kind \in d.privacy} :
       \E established \in {establishNodesRelationsFromData(derive, privacy)},
          extract \in ExtractResponses(d.names, d.maxEnt, d.degraded),
          delete \in DeleteResponses(d.maxDel, d.degraded) :
       \E retrieved \in {retrieveNodesFromData(extract)},
          cleaned \in {getDeleteEntitiesFromSearchOutput(delete)} :
       \E embeds \in EmbedLists(d.models, mapKeys(retrieved.value)) :
            LET entityTypeMap == retrieved.value
                toBeAdded == established.value
                toBeDeleted == cleaned.value
                \* the responses in the order add asks for them
                asked == [extract |-> extract,
                          embeds |-> IF retrieved.ok /\ established.ok
                                     THEN embeds ELSE <<>>,
                          derive |-> IF retrieved.ok THEN derive ELSE NotAsked,
                          privacy |-> IF retrieved.ok /\ established.ok
                                      THEN privacy ELSE NotAsked,
                          delete |-> IF retrieved.ok /\ established.ok
                                     THEN delete ELSE NotAsked]
                begun == [IdleFrame EXCEPT
                            !.op = "add", !.userId = userId,
                            !.oracle = IF d.record THEN asked ELSE <<>>]
                \* the neighbor query of the first node that has an embedding
                fetched == ~ (/\ rejected(userId, NeighborUses)
                              /\ \E i \in 1..Len(embeds) : embeds[i] # EmbedFail)
            IN  IF retrieved.ok /\ established.ok /\ ~ fetched
                THEN call' = [call EXCEPT ![c] =
                        [begun EXCEPT !.pc = "failed",
                                      !.oracle = IF d.record
                                                 THEN [asked EXCEPT !.delete = NotAsked]
                                                 ELSE <<>>]]
                ELSE IF retrieved.ok /\ established.ok /\ cleaned.ok
                THEN /\ now - 1 + Len(toBeAdded) <= d.maxWrites
                     /\ \E f \in {[begun EXCEPT
                                !.entityTypeMap = entityTypeMap,
                                !.toBeAdded = toBeAdded,
                                !.searchOutput =
                                    searchGraphDb(entities, relations,
                                                  mapKeys(entityTypeMap), embeds,
                                                  userId, defaultLimit),
                                !.toBeDeleted = toBeDeleted, !.i = 1,
                                !.pre = [entities |-> entities,
                                         relations |-> relations]]} :
                            call' = [call EXCEPT ![c] =
                                        [f EXCEPT !.pc = Advance(f, 1, 1).pc]]
                ELSE call' = [call EXCEPT ![c] = [begun EXCEPT !.pc = "failed"]]
    /\ UNCHANGED <<entities, relations, nextId, now, boot, vectors>>

\* a delete that takes zero affected rows for an error
AddDeleteOrRaise(c) ==
    LET f == call[c]
        item == f.toBeDeleted[f.i]
        gone == deleteMatches(entities, relations, item, f.userId)
    IN  /\ f.pc = "delete"
        /\ IF rejected(f.userId, DeleteUses) \/ gone = {}
           THEN /\ call' = [call EXCEPT ![c] = [f EXCEPT !.pc = "failed"]]
                /\ UNCHANGED relations
           ELSE /\ relations' = relations \ gone
                /\ call' = [call EXCEPT ![c] =
                        [Proceed(f) EXCEPT
                            !.deleted_entities = Append(@, {r.id : r \in gone}),
                            !.log = Append(@, <<"delete", item>>)]]
        /\ UNCHANGED <<entities, nextId, now, boot, vectors>>

\* _deleteEntities: the delete query of item i
AddDelete(c) ==
    LET f == call[c]
        item == f.toBeDeleted[f.i]
        gone == deleteMatches(entities, relations, item, f.userId)
    IN  /\ f.pc = "delete"
        /\ IF rejected(f.userId, DeleteUses)
           THEN /\ call' = [call EXCEPT ![c] = [f EXCEPT !.pc = "failed"]]
                /\ UNCHANGED relations
           ELSE /\ relations' = relations \ gone
                /\ call' = [call EXCEPT ![c] =
                        [Proceed(f) EXCEPT
                            !.deleted_entities = Append(@, {r.id : r \in gone}),
                            !.log = Append(@, <<"delete", item>>)]]
        /\ UNCHANGED <<entities, nextId, now, boot, vectors>>

\* a rejection that takes the call's earlier writes back
InsertOutcomeRollback(c, f, item, out) ==
    IF out.ok
    THEN /\ entities' = out.entities
         /\ relations' = out.relations
         /\ nextId' = nextId + 3
         /\ now' = now + 1
         /\ UNCHANGED <<boot, vectors>>
         /\ call' = [call EXCEPT ![c] =
                [Proceed(f) EXCEPT
                          !.added_entities = Append(@, out.relationship),
                          !.log = Append(@, <<"insert", item>>),
                          !.seen = NoRows]]
    ELSE /\ call' = [call EXCEPT ![c] = [f EXCEPT !.pc = "failed", !.seen = NoRows]]
         /\ entities' = f.pre.entities
         /\ relations' = f.pre.relations
         /\ UNCHANGED <<nextId, now, boot, vectors>>

\* what one answered relationQuery leaves in the store and in the frame
InsertOutcome(c, f, item, out) ==
    IF out.ok
    THEN /\ entities' = out.entities
         /\ relations' = out.relations
         /\ nextId' = nextId + 3
         /\ now' = now + 1
         /\ UNCHANGED <<boot, vectors>>
         /\ call' = [call EXCEPT ![c] =
                [Proceed(f) EXCEPT
                          !.added_entities = Append(@, out.relationship),
                          !.log = Append(@, <<"insert", item>>),
                          !.seen = NoRows]]
    ELSE /\ call' = [call EXCEPT ![c] = [f EXCEPT !.pc = "failed", !.seen = NoRows]]
         /\ UNCHANGED <<entities, relations, nextId, now, boot, vectors>>

\* _addEntities: item i, its two embeddings and its relationQuery
AddInsert(c, models) ==
    LET f == call[c]
        item == f.toBeAdded[f.i]
    IN  /\ f.pc = "insert"
        /\ \E pair \in EmbedPairs(models, item.source, item.destination) :
            IF pair[1] = EmbedFail \/ pair[2] = EmbedFail
            THEN /\ call' = [call EXCEPT ![c] = Proceed(f)]
                 /\ UNCHANGED <<entities, relations, nextId, now, boot, vectors>>
            ELSE IF rejected(f.userId, RelationUses)
            THEN InsertOutcome(c, f, item, QueryError)
            ELSE \E out \in relationQuery(entities, relations, entities, relations,
                                          item, f.userId, f.entityTypeMap,
                                          pair[1], pair[2], nextId, now) :
                    InsertOutcome(c, f, item, out)

\* the same item with the statement's read and its write as two steps, so that
\* another caller's query can land between them
AddInsertBegin(c, models) ==
    LET f == call[c]
        item == f.toBeAdded[f.i]
    IN  /\ f.pc = "insert"
        /\ \E pair \in EmbedPairs(models, item.source, item.destination) :
            IF pair[1] = EmbedFail \/ pair[2] = EmbedFail
            THEN call' = [call EXCEPT ![c] = Proceed(f)]
            ELSE call' = [call EXCEPT ![c] =
                        [f EXCEPT !.pc = "commit", !.embeds = pair,
                                  !.seen = [entities |-> entities,
                                            relations |-> relations]]]
        /\ UNCHANGED <<entities, relations, nextId, now, boot, vectors>>

AddInsertCommit(c) ==
    LET f == call[c]
        item == f.toBeAdded[f.i]
    IN  /\ f.pc = "commit"
        /\ \E out \in IF rejected(f.userId, RelationUses) THEN {QueryError}
                       ELSE relationQuery(f.seen.entities, f.seen.relations,
                                          entities, relations, item, f.userId,
                                          f.entityTypeMap, f.embeds[1], f.embeds[2],
                                          nextId, now) :
                InsertOutcome(c, [f EXCEPT !.pc = "insert", !.embeds = <<>>], item, out)

\* d bounds the inputs as in AddCall, d.limits the limit argument
SearchCall(c, d) ==
    /\ call[c].pc = "idle"
    /\ \E userId \in d.users, filterPrivate \in FilterPrivate, limit \in d.limits,
          query \in Queries,
          extract \in ExtractResponses(d.names, d.maxEnt, d.degraded) :
        LET retrieved == retrieveNodesFromData(extract)
            entityTypeMap == retrieved.value
            begun == [IdleFrame EXCEPT
                        !.op = "search", !.userId = userId,
                        !.filterPrivate = filterPrivate, !.limit = limit,
                        !.query = query,
                        !.oracle = IF d.record THEN [extract |-> extract] ELSE <<>>]
        IN  \E embeds \in EmbedLists(d.models, mapKeys(entityTypeMap)) :
                call' = [call EXCEPT ![c] =
                    IF ~ retrieved.ok THEN [begun EXCEPT !.pc = "failed"]
                    ELSE IF /\ rejected(userId, NeighborUses)
                            /\ \E i \in 1..Len(embeds) : embeds[i] # EmbedFail
                    THEN [begun EXCEPT !.pc = "failed"]
                    ELSE [begun EXCEPT
                            !.pc = "done", !.entityTypeMap = entityTypeMap,
                            !.embeds = embeds,
                            !.searchOutput =
                                searchGraphDb(entities, relations,
                                              mapKeys(entityTypeMap), embeds,
                                              userId, defaultLimit),
                            !.result = search(entities, relations, query, userId,
                                              filterPrivate, entityTypeMap, embeds)]]
    /\ UNCHANGED <<entities, relations, nextId, now, boot, vectors>>

GetAllCall(c, users, limits) ==
    /\ call[c].pc = "idle"
    /\ \E userId \in users, filterPrivate \in FilterPrivate, limit \in limits :
        call' = [call EXCEPT ![c] =
            IF rejected(userId, GetAllUses)
            THEN [IdleFrame EXCEPT
                    !.pc = "failed", !.op = "getAll", !.userId = userId,
                    !.filterPrivate = filterPrivate, !.limit = limit]
            ELSE [IdleFrame EXCEPT
                    !.pc = "done", !.op = "getAll", !.userId = userId,
                    !.filterPrivate = filterPrivate, !.limit = limit,
                    !.result = getAll(entities, relations, userId, filterPrivate,
                                      limit)]]
    /\ UNCHANGED <<entities, relations, nextId, now, boot, vectors>>

\* deleteAll: its first query
DeleteAllCall(c, users) ==
    /\ call[c].pc = "idle"
    /\ \E userId \in users :
        IF rejected(userId, DeleteRelationsUses)
        THEN /\ UNCHANGED relations
             /\ call' = [call EXCEPT ![c] =
                    [IdleFrame EXCEPT
                        !.pc = "failed", !.op = "deleteAll", !.userId = userId,
                        !.pre = [entities |-> entities, relations |-> relations]]]
        ELSE /\ relations' = deleteAllRelations(entities, relations, userId)
             /\ call' = [call EXCEPT ![c] =
                    [IdleFrame EXCEPT
                        !.pc = "entities", !.op = "deleteAll", !.userId = userId,
                        !.log = <<<<"relations", userId>>>>,
                        !.pre = [entities |-> entities, relations |-> relations]]]
    /\ UNCHANGED <<entities, nextId, now, boot, vectors>>

\* deleteAll: its second query
DeleteAllEntities(c) ==
    LET f == call[c]
        out == IF rejected(f.userId, DeleteEntitiesUses)
               THEN [ok |-> FALSE, entities |-> entities]
               ELSE deleteAllEntities(entities, relations, f.userId)
    IN  /\ f.pc = "entities"
        /\ entities' = out.entities
        /\ call' = [call EXCEPT ![c] =
                [f EXCEPT !.pc = IF out.ok THEN "done" ELSE "failed",
                          !.log = IF out.ok THEN Append(@, <<"entities", f.userId>>)
                                  ELSE @]]
        /\ UNCHANGED <<relations, nextId, now, boot, vectors>>

\* _deleteEntities: the store rejects the delete query of item i (the
\* connection is lost, the query times out); nothing catches the rejection
AddDeleteRejected(c) ==
    LET f == call[c]
    IN  /\ f.pc = "delete"
        /\ call' = [call EXCEPT ![c] = [f EXCEPT !.pc = "failed"]]
        /\ UNCHANGED <<entities, relations, nextId, now, boot, vectors>>

\* _addEntities: the embeddings of item i arrive and the store rejects its
\* relationQuery; the catch block rethrows
AddInsertRejected(c) ==
    LET f == call[c]
    IN  /\ f.pc = "insert"
        /\ InsertOutcome(c, f, f.toBeAdded[f.i], QueryError)

\* the caller takes the result (or the error) of its finished call
Return(c) ==
    /\ call[c].pc \in {"done", "failed"}
    /\ call' = [call EXCEPT ![c] = IdleFrame]
    /\ UNCHANGED <<entities, relations, nextId, now, boot, vectors>>

(*************************** flat memory store *****************************)
\* Gel.insert of one vector: content := data || "", hash := hash || ""; the
\* exclusive constraint on mem0_id rejects a second row of one id
insert(rows, clock, id, vector, payload) ==
    IF id \in Held(rows) THEN rows
    ELSE rows \cup
            {[mem0_id |-> id,
              content |-> IF truthy(payload.data) THEN payload.data ELSE "''",
              embedding |-> vector,
              hash |-> IF truthy(payload.hash) THEN payload.hash ELSE "''",
              user_id |-> "u1",
              created_at |-> clock, updated_at |-> NoTime]}

\* Gel.update: no query when neither argument is given; otherwise updated_at
\* and each field whose argument is truthy
update(rows, clock, vectorId, vector, payload) ==
    IF ~ truthy(vector) /\ ~ payload.given THEN rows
    ELSE {IF r.mem0_id # vectorId THEN r
          ELSE [r EXCEPT
                  !.updated_at = clock,
                  !.embedding = IF truthy(vector) THEN vector ELSE @,
                  !.content = IF payload.given /\ truthy(payload.data)
                              THEN payload.data ELSE @,
                  !.hash = IF payload.given /\ truthy(payload.hash)
                           THEN payload.hash ELSE @,
                  !.user_id = IF payload.given /\ truthy(payload.user_id)
                              THEN payload.user_id ELSE @] : r \in rows}

\* Gel.get: payload.data of the row, or null
get(rows, vectorId) ==
    IF vectorId \in Held(rows) THEN Row(rows, vectorId).content ELSE "null"

\* one adapter call: the clock of the store moves on with each
Called(op, id, vector, payload, rows, got) ==
    [rows |-> rows, clock |-> vectors.clock + 1,
     last |-> [op |-> op, id |-> id, vector |-> vector, payload |-> payload,
               at |-> vectors.clock, pre |-> vectors.rows, got |-> got]]

VectorInsert ==
    /\ vectors.clock <= MaxClock
    /\ \E id \in MemIds, vector \in VectorArgs \ {"undefined"}, payload \in Payloads :
        /\ payload.given /\ payload.user_id = "undefined"
        /\ vectors' = Called("insert", id, vector, payload,
                             insert(vectors.rows, vectors.clock, id, vector, payload),
                             "undefined")
    /\ UNCHANGED <<entities, relations, nextId, now, call, boot>>

VectorUpdate ==
    /\ vectors.clock <= MaxClock
    /\ \E id \in MemIds, vector \in VectorArgs, payload \in Payloads :
        vectors' = Called("update", id, vector, payload,
                          update(vectors.rows, vectors.clock, id, vector, payload),
                          "undefined")
    /\ UNCHANGED <<entities, relations, nextId, now, call, boot>>

VectorGet ==
    /\ vectors.clock <= MaxClock
    /\ \E id \in MemIds :
        vectors' = Called("get", id, "undefined", NoCall.payload, vectors.rows,
                          get(vectors.rows, id))
    /\ UNCHANGED <<entities, relations, nextId, now, call, boot>>

VectorDelete ==
    /\ vectors.clock <= MaxClock
    /\ \E id \in MemIds :
        vectors' = Called("delete", id, "undefined", NoCall.payload,
                          {r \in vectors.rows : r.mem0_id # id}, "undefined")
    /\ UNCHANGED <<entities, relations, nextId, now, call, boot>>

(**************************** specifications *******************************)
PrivacyKinds == {"throw", "text", "badjson", "tool"}
\* the flags of a well-formed classification
Booleans == {"true", "false"}

\* one caller, awaiting each call before the next, in two owner scopes
Scopes ==
    [users |-> Users, names |-> {<<"a">>}, models |-> {"m1"},
     maxRel |-> MaxRel, maxDel |-> MaxDel, privacy |-> PrivacyKinds,
     flags |-> Booleans, degraded |-> FALSE, record |-> FALSE,
     maxWrites |-> MaxWrites, maxEnt |-> MaxEnt,
     aligned |-> TRUE]

\* the searches of that caller, under either embedding model
Asking ==
    [users |-> Users, names |-> {<<"a">>}, models |-> Models, limits |-> {1},
     maxEnt |-> MaxEnt, degraded |-> FALSE, record |-> FALSE]

Next ==
    \E c \in {"c1"} :
        \/ AddCall(c, Scopes)
        \/ AddDelete(c)
        \/ AddInsert(c, Scopes.models)
        \/ SearchCall(c, Asking)
        \/ GetAllCall(c, Users, {1, defaultLimit})
        \/ DeleteAllCall(c, Users)
        \/ DeleteAllEntities(c)
        \/ Return(c)

Spec == Init /\ [][Next]_vars

\* one caller in one owner scope, the embedder changing between calls
Upsert ==
    [users |-> {"u1"}, names |-> {<<"a">>}, models |-> Models,
     maxRel |-> MaxRel, maxDel |-> MaxDel, privacy |-> PrivacyKinds,
     flags |-> Booleans, degraded |-> FALSE, record |-> FALSE,
     maxWrites |-> MaxWrites, maxEnt |-> MaxEnt,
     aligned |-> TRUE]

NextUpsert ==
    \E c \in {"c1"} :
        \/ AddCall(c, Upsert)
        \/ AddDelete(c)
        \/ AddInsert(c, Upsert.models)
        \/ Return(c)

SpecUpsert == Init /\ [][NextUpsert]_vars

\* two callers in one owner scope whose calls interleave query by query
Racing ==
    [users |-> {"u1"}, names |-> {}, models |-> {"m1"},
     maxRel |-> 1, maxDel |-> 0, privacy |-> {"text"},
     flags |-> Booleans, degraded |-> FALSE, record |-> FALSE,
     maxWrites |-> MaxWrites, maxEnt |-> MaxEnt,
     aligned |-> TRUE]

NextConc ==
    \E c \in Callers :
        \/ AddCall(c, Racing)
        \/ AddInsertBegin(c, Racing.models)
        \/ AddInsertCommit(c)
        \/ DeleteAllCall(c, Racing.users)
        \/ DeleteAllEntities(c)
        \/ Return(c)

SpecConc == Init /\ [][NextConc]_vars

\* one caller in one owner scope, every kind of oracle response, the responses
\* of each add kept with its frame
Degraded ==
    [users |-> {"u1"}, names |-> {<<"a">>}, models |-> {"m1"},
     maxRel |-> 1, maxDel |-> 0, privacy |-> PrivacyKinds,
     flags |-> JsValues, degraded |-> TRUE, record |-> TRUE,
     maxWrites |-> MaxWrites, maxEnt |-> MaxEnt,
     aligned |-> TRUE]

AskingDegraded ==
    [users |-> {"u1"}, names |-> {<<"a">>}, models |-> {"m1"}, limits |-> {1},
     maxEnt |-> MaxEnt, degraded |-> TRUE, record |-> TRUE]

NextOracle ==
    \E c \in {"c1"} :
        \/ AddCall(c, Degraded)
        \/ AddInsert(c, Degraded.models)
        \/ SearchCall(c, AskingDegraded)
        \/ Return(c)

SpecOracle == Init /\ [][NextOracle]_vars

\* one caller in one owner scope against a store that may reject a write
Faulty ==
    [users |-> {"u1"}, names |-> {}, models |-> {"m1"},
     maxRel |-> MaxRel, maxDel |-> MaxDel, privacy |-> {"text"},
     flags |-> Booleans, degraded |-> FALSE, record |-> FALSE,
     maxWrites |-> MaxWrites + 1, maxEnt |-> MaxEnt,
     aligned |-> TRUE]

NextFaults ==
    \E c \in {"c1"} :
        \/ AddCall(c, Faulty)
        \/ AddDelete(c)
        \/ AddDeleteRejected(c)
        \/ AddInsert(c, Faulty.models)
        \/ AddInsertRejected(c)
        \/ Return(c)

SpecFaults == Init /\ [][NextFaults]_vars

\* one caller whose filters carry no userId
Scopeless ==
    [users |-> {MissingUserId}, names |-> {<<"a">>}, models |-> {"m1"},
     maxRel |-> MaxRel, maxDel |-> MaxDel, privacy |-> {"text", "tool"},
     flags |-> Booleans, degraded |-> FALSE, record |-> TRUE,
     maxWrites |-> MaxWrites, maxEnt |-> MaxEnt,
     aligned |-> TRUE]

NextScopeless ==
    \E c \in {"c1"} :
        \/ AddCall(c, Scopeless)
        \/ AddDelete(c)
        \/ AddInsert(c, Scopeless.models)
        \/ Return(c)

SpecScopeless == Init /\ [][NextScopeless]_vars

\* one caller in one owner scope who stores up to three relations, public or
\* private, and searches with up to two mentioned entities
Ranked ==
    [users |-> {"u1"}, names |-> {}, models |-> {"m1"},
     maxRel |-> 1, maxDel |-> 0, privacy |-> {"tool"},
     flags |-> Booleans, degraded |-> FALSE, record |-> FALSE,
     maxWrites |-> MaxWrites + 1, maxEnt |-> MaxEnt,
     aligned |-> TRUE]
AskingRanked ==
    [users |-> {"u1"}, names |-> RawNames, models |-> {"m1"},
     limits |-> {1, defaultLimit}, maxEnt |-> MaxEnt + 1, degraded |-> FALSE,
     record |-> FALSE]

NextRank ==
    \E c \in {"c1"} :
        \/ AddCall(c, Ranked)
        \/ AddInsert(c, Ranked.models)
        \/ SearchCall(c, AskingRanked)
        \/ Return(c)

SpecRank == Init /\ [][NextRank]_vars

\* one caller in one owner scope on an instance just constructed, on any of the
\* schemas; nothing makes a call wait for the validation
Starting ==
    [users |-> {"u1"}, names |-> {<<"a">>}, models |-> {"m1"},
     maxRel |-> 1, maxDel |-> MaxDel, privacy |-> {"tool"},
     flags |-> Booleans, degraded |-> FALSE, record |-> FALSE,
     maxWrites |-> MaxWrites, maxEnt |-> MaxEnt,
     aligned |-> TRUE]

NextBoot ==
    \/ ValidateGraphSchema
    \/ CreateCol
    \/ \E c \in {"c1"} :
        \/ AddCall(c, Starting)
        \/ AddDelete(c)
        \/ AddInsert(c, Starting.models)
        \/ GetAllCall(c, Starting.users, {defaultLimit})
        \/ Return(c)

SpecBoot == InitBoot /\ [][NextBoot]_vars

\* the store adapter alone: inserts, updates, reads and deletes of two ids
NextFlat ==
    \/ VectorInsert
    \/ VectorUpdate
    \/ VectorGet
    \/ VectorDelete

SpecFlat == Init /\ [][NextFlat]_vars

\* one caller in one owner scope whose adds and searches mention up to two
\* entities, each embedding of the neighbor fetch succeeding or failing
Mentioning ==
    [users |-> {"u1"}, names |-> RawNames, models |-> {"m1"},
     maxRel |-> 1, maxDel |-> 0, privacy |-> {"tool"},
     flags |-> {"false"}, degraded |-> FALSE, record |-> TRUE,
     maxWrites |-> MaxWrites, maxEnt |-> MaxEnt + 1,
     aligned |-> TRUE]
AskingMentioning ==
    [users |-> {"u1"}, names |-> RawNames, models |-> {"m1"},
     limits |-> {defaultLimit}, maxEnt |-> MaxEnt + 1, degraded |-> FALSE,
     record |-> TRUE]

NextSkip ==
    \E c \in {"c1"} :
        \/ AddCall(c, Mentioning)
        \/ AddInsert(c, Mentioning.models)
        \/ SearchCall(c, AskingMentioning)
        \/ Return(c)

SpecSkip == Init /\ [][NextSkip]_vars

\* one caller in one owner scope who proposes up to two relations; the
\* classification comes back in any order and may leave relations out
Classifying ==
    [users |-> {"u1"}, names |-> {}, models |-> {"m1"},
     maxRel |-> MaxRel, maxDel |-> 0, privacy |-> {"tool"},
     flags |-> Booleans, degraded |-> FALSE, record |-> TRUE,
     maxWrites |-> MaxWrites, maxEnt |-> MaxEnt,
     aligned |-> FALSE]

NextClassify ==
    \E c \in {"c1"} :
        \/ AddCall(c, Classifying)
        \/ AddInsert(c, Classifying.models)
        \/ Return(c)

SpecClassify == Init /\ [][NextClassify]_vars

(******************************* properties ********************************)
AddFrames == {call[c] : c \in {k \in Callers : call[k].op = "add"}}
Triple(x) == <<x.source, x.relationship, x.destination>>
Triples(list) == {Triple(list[i]) : i \in 1..Len(list)}
\* the relation rows between entities of one scope that carry a triple of names
Stored(ents, rels, userId, t) ==
    {r \in rels :
        \E s, d \in ents :
            /\ s.id = r.source /\ d.id = r.target
            /\ s.user_id = userId /\ d.user_id = userId
            /\ s.name = t[1] /\ r.relationship_type = t[2] /\ d.name = t[3]}
\* the items of an add whose relationQuery was answered
Inserted(f) == {f.log[n][2] : n \in {m \in 1..Len(f.log) : f.log[m][1] = "insert"}}

\* C1: no two relation rows share (source entity, target entity,
\* relationship_type); an add that proposes a triple already stored in its scope
\* (and does not delete it) does not fail on that item and leaves the one row
\* that was there, creating no second one.
C1_OneRelationPerTriple ==
    /\ \A x, y \in relations :
            (x.source = y.source /\ x.target = y.target
                /\ x.relationship_type = y.relationship_type) => x.id = y.id
    /\ \A f \in AddFrames : \A k \in 1..Len(f.toBeAdded) :
        LET t == Triple(f.toBeAdded[k])
            before == Stored(f.pre.entities, f.pre.relations, f.userId, t)
        IN  (before # {} /\ t \notin Triples(f.toBeDeleted)) =>
                /\ ~ (f.pc = "failed" /\ f.i = k)
                /\ Stored(entities, relations, f.userId, t) = before

C1_Witness ==
    \E f \in AddFrames :
        /\ f.pc = "done"
        /\ \E item \in Inserted(f) :
            /\ Triple(item) \notin Triples(f.toBeDeleted)
            /\ Stored(f.pre.entities, f.pre.relations, f.userId, Triple(item)) # {}
            /\ Cardinality(Stored(entities, relations, f.userId, Triple(item))) = 1

\* C2: an add that names an entity already stored in its scope creates no
\* second row for it: the row keeps its id, name, entity_type, user_id and
\* created_at, so that only embedding and updated_at can differ afterwards.
C2_EntityUpsert ==
    /\ \A x, y \in entities :
            (x.name = y.name /\ x.user_id = y.user_id) => x.id = y.id
    /\ \A f \in AddFrames : \A e \in f.pre.entities :
            \E e2 \in entities :
                /\ e2.id = e.id
                /\ e2.name = e.name
                /\ e2.entity_type = e.entity_type
                /\ e2.user_id = e.user_id
                /\ e2.created_at = e.created_at

C2_Witness ==
    \E f \in AddFrames :
        /\ f.pc = "done"
        /\ f.pre.relations # {}
        /\ relations = f.pre.relations
        /\ EntityIds(entities) = EntityIds(f.pre.entities)
        /\ \E item \in Inserted(f) :
                Stored(f.pre.entities, f.pre.relations, f.userId, Triple(item)) # {}
        /\ \E e \in f.pre.entities, e2 \in entities :
                /\ e2.id = e.id
                /\ e2.embedding # e.embedding
                /\ e2.updated_at # e.updated_at

\* C3: of two add calls in one scope that name the same entities, none fails
\* because the other one inserted first: an add fails on an item only when the
\* item relates a name to itself (the one item a lone call can fail on), and no
\* (name, user_id) is stored twice.
C3_NoRaceFailure ==
    /\ \A x, y \in entities :
            (x.name = y.name /\ x.user_id = y.user_id) => x.id = y.id
    /\ \A f \in AddFrames :
            f.pc = "failed" => f.toBeAdded[f.i].source = f.toBeAdded[f.i].destination

C5_DeleteOnlyListed ==
    \A f \in AddFrames :
        /\ \A r \in f.pre.relations \ relations :
                \E t \in Triples(f.toBeDeleted) :
                    r \in Stored(f.pre.entities, f.pre.relations, f.userId, t)
        /\ f.toBeDeleted = <<>> => f.pre.relations \subseteq relations
        /\ (f.toBeDeleted = <<>> /\ f.pc = "done") =>
                \A item \in Inserted(f) :
                    Stored(entities, relations, f.userId, Triple(item)) # {}

C5_Witness ==
    \E f \in AddFrames :
        /\ f.pc = "done"
        /\ f.toBeDeleted = <<>>
        /\ \E r \in f.pre.relations : EntityById(f.pre.entities, r.source).user_id = f.userId
        /\ f.pre.relations \subseteq relations
        /\ relations # f.pre.relations

\* C6: the two endpoints of every stored relation are stored entities with one
\* user_id, the user_id of the add that created the relation.
C6_EndpointsInOneScope ==
    \A r \in relations :
        \E s, d \in entities :
            /\ s.id = r.source
            /\ d.id = r.target
            /\ s.user_id = d.user_id
            /\ s.user_id = r.creator

C6_Witness ==
    /\ \E r \in relations : r.creator = "u1"
    /\ \E r \in relations : r.creator = "u2"
    /\ \E x, y \in entities : x.name = y.name /\ x.user_id # y.user_id

OwnerOf(id) == {e.user_id : e \in {x \in entities : x.id = id}}

\* C7: reads stay in their scope: every row getAll walks for a scope has its
\* source entity in that scope, and every neighbor relation fetched for an add
\* or a search has both endpoints in the caller's scope.
C7_ReadsInScope ==
    /\ \A u \in Users, fp \in FilterPrivate, limit \in {1, defaultLimit} :
        LET rows == getAllRows(entities, relations, u, fp, limit)
        IN  \A i \in 1..Len(rows) :
                /\ rows[i].entity.user_id = u
                /\ rows[i].relation.source = rows[i].entity.id
    /\ \A c \in Callers :
        LET f == call[c]
        IN  (f.op = "search" \/ (f.op = "add" /\ f.log = <<>>)) =>
                \A i \in 1..Len(f.searchOutput) :
                    /\ OwnerOf(f.searchOutput[i].source_id) = {f.userId}
                    /\ OwnerOf(f.searchOutput[i].destination_id) = {f.userId}

C7_Witness ==
    \E c \in Callers :
        LET f == call[c]
        IN  /\ f.op = "search"
            /\ f.searchOutput # <<>>
            /\ getAllRows(entities, relations, f.userId, "omitted", defaultLimit) # <<>>
            /\ \E r \in relations : r.creator # f.userId

InScope(ents, rels, u) ==
    [entities |-> {e \in ents : e.user_id = u},
     relations |-> {r \in rels : \E e \in ents :
                        e.user_id = u /\ (e.id = r.source \/ e.id = r.target)}]
OutOfScope(ents, rels, u) ==
    [entities |-> ents \ InScope(ents, rels, u).entities,
     relations |-> rels \ InScope(ents, rels, u).relations]

\* C8: deleteAll of a scope does not fail; it deletes the scope's relations
\* first and its entities second; when it returns the scope has no relation and
\* no entity, a getAll of the scope is empty, and the rows of every other scope
\* are as they were.
C8_DeleteAllScope ==
    \A c \in Callers :
        LET f == call[c]
        IN  f.op = "deleteAll" =>
            /\ f.pc # "failed"
            /\ OutOfScope(entities, relations, f.userId)
                    = OutOfScope(f.pre.entities, f.pre.relations, f.userId)
            /\ InScope(entities, relations, f.userId).relations = {}
            /\ f.pc = "entities" =>
                    /\ f.log = << <<"relations", f.userId>> >>
                    /\ entities = f.pre.entities
            /\ f.pc = "done" =>
                    /\ f.log = << <<"relations", f.userId>>, <<"entities", f.userId>> >>
                    /\ InScope(entities, relations, f.userId) = NoRows
                    /\ \A fp \in FilterPrivate, limit \in {1, defaultLimit} :
                            getAll(entities, relations, f.userId, fp, limit) = <<>>

C8_Witness ==
    \E c \in Callers :
        LET f == call[c]
        IN  /\ f.op = "deleteAll"
            /\ f.pc = "done"
            /\ InScope(f.pre.entities, f.pre.relations, f.userId).relations # {}
            /\ relations # {}

SearchFrames == {call[c] : c \in {k \in Callers : call[k].op = "search"}}
\* the result of the search of frame f, had it been called with another filter
SearchWith(f, fp) ==
    search(entities, relations, f.query, f.userId, fp, f.entityTypeMap, f.embeds)
\* the neighbor relations of the search of frame f that are private
PrivateFetched(f) ==
    {Triple(f.searchOutput[i]) :
        i \in {k \in 1..Len(f.searchOutput) : truthy(f.searchOutput[k].metadata.isPrivate)}}
PublicFetched(f) ==
    {Triple(f.searchOutput[i]) :
        i \in {k \in 1..Len(f.searchOutput) : ~ truthy(f.searchOutput[k].metadata.isPrivate)}}

\* C9: a search with filterPrivate = true returns no relation that is stored
\* private; with filterPrivate = false or omitted nothing is excluded and both
\* give the same result; the filtered result is never longer than the
\* unfiltered one.
C9_SearchPrivacyFilter ==
    \A f \in SearchFrames :
        /\ f.filterPrivate = "true" =>
                \A i \in 1..Len(f.result) :
                    Triple(f.result[i]) \in PrivateFetched(f) =>
                        Triple(f.result[i]) \in PublicFetched(f)
        /\ f.filterPrivate # "true" =>
                /\ Len(f.result) = IF Len(f.searchOutput) < topK
                                   THEN Len(f.searchOutput) ELSE topK
                /\ \A i \in 1..Len(f.result) :
                        Triple(f.result[i]) \in Triples(f.searchOutput)
        /\ SearchWith(f, "false") = SearchWith(f, "omitted")
        /\ f.result = SearchWith(f, f.filterPrivate)
        /\ Len(SearchWith(f, "true")) <= Len(SearchWith(f, "omitted"))
        /\ Triples(SearchWith(f, "true")) \subseteq Triples(SearchWith(f, "omitted"))

C9_Witness ==
    \E f \in SearchFrames :
        /\ f.filterPrivate = "true"
        /\ f.result # <<>>
        /\ Len(f.result) < Len(SearchWith(f, "omitted"))
        /\ PrivateFetched(f) \ PublicFetched(f) # {}

GetAllFrames == {call[c] : c \in {k \in Callers : call[k].op = "getAll"}}
\* the rows of a getAll result that stand for a public relation
PublicOnly(rows) == SelectSeq(rows, LAMBDA row : ~ truthy(row.relation.metadata.isPrivate))
RowTriples(ents, rows) ==
    [i \in 1..Len(rows) |->
        [source |-> rows[i].entity.name,
         relationship |-> rows[i].relation.relationship_type,
         target |-> EntityById(ents, rows[i].relation.target).name]]

\* C10: getAll with filterPrivate = true returns the unfiltered getAll of the
\* same scope and limit without its private relations, and nothing else.
C10_GetAllPrivacyFilter ==
    /\ \A u \in Users, limit \in {1, defaultLimit} :
        /\ getAllRows(entities, relations, u, "true", limit)
                = PublicOnly(getAllRows(entities, relations, u, "omitted", limit))
        /\ getAllRows(entities, relations, u, "false", limit)
                = getAllRows(entities, relations, u, "omitted", limit)
    /\ \A f \in GetAllFrames :
        LET all == getAllRows(entities, relations, f.userId, "omitted", f.limit)
        IN  /\ f.filterPrivate = "true" =>
                    /\ f.result = RowTriples(entities, PublicOnly(all))
                    /\ Len(f.result) <= Len(all)
            /\ f.filterPrivate # "true" => f.result = RowTriples(entities, all)

C10_Witness ==
    \E f \in GetAllFrames :
        LET all == getAllRows(entities, relations, f.userId, "omitted", f.limit)
        IN  /\ f.filterPrivate = "true"
            /\ f.result # <<>>
            /\ Len(f.result) < Len(all)

\* C11: when the classification call throws, answers with plain text or with
\* arguments that do not parse, every proposed relation of the add gets
\* metadata.isPrivate = false; and whatever the oracle answers, the isPrivate of
\* every relation in add's result is one of the two booleans.
C11_PrivacyFailOpen ==
    \A f \in AddFrames :
        f.oracle # <<>> =>
            \A k \in 1..Len(f.toBeAdded) :
                /\ f.oracle.privacy.kind \in {"throw", "text", "badjson"} =>
                        f.toBeAdded[k].metadata.isPrivate = "false"
                /\ f.toBeAdded[k].metadata.isPrivate \in {"true", "false"}

\* the frames that keep the oracle's responses
Recorded == {call[c] : c \in {k \in Callers : call[k].oracle # <<>>}}
\* an extraction response without a usable entities list
ExtractDegraded(resp) ==
    \/ resp.kind \in {"text", "notool", "badjson", "nolist"}
    \/ \E i \in 1..Len(resp.entities) :
            Undefined \in {resp.entities[i].entity, resp.entities[i].entity_type}

\* C12: for every degraded extraction response (plain text, no tool call,
\* arguments that do not parse, no entities list, an item without entity or
\* entity_type) the entity-to-type map is empty and add and search go on to
\* their next stage without raising.
C12_ExtractDegradesToEmpty ==
    \A f \in Recorded :
        (f.op \in {"add", "search"} /\ ExtractDegraded(f.oracle.extract)) =>
            /\ f.entityTypeMap = <<>>
            /\ f.op = "search" => f.pc # "failed"
            /\ f.op = "add" => f.oracle.derive # NotAsked

\* a relation response whose arguments do not parse or with an item that
\* lacks a field
DeriveDegraded(resp) ==
    \/ resp.kind = "badjson"
    \/ /\ resp.kind = "tool"
       /\ \E i \in 1..Len(resp.entities) :
            Undefined \in {resp.entities[i].source, resp.entities[i].relationship,
                           resp.entities[i].destination}

\* C13: when the relation oracle's arguments do not parse or one of its items
\* lacks source, relationship or destination, add goes on with an empty list
\* of proposed relations through its remaining stages and does not raise.
C13_DeriveDegradesToEmpty ==
    \A f \in Recorded :
        (f.op = "add" /\ f.oracle.derive # NotAsked
            /\ DeriveDegraded(f.oracle.derive)) =>
                /\ f.pc # "failed"
                /\ f.toBeAdded = <<>>
                /\ f.oracle.delete # NotAsked

RelationIds(rels) == {r.id : r \in rels}
\* the ids a sequence of query results names
IdsIn(results) == UNION {results[j] : j \in 1..Len(results)}

\* C14: when the store rejects a delete or a relation write of an add, the add
\* fails; the store then holds exactly what the queries answered before the
\* rejection left: the relations deleted so far are gone, the relations
\* written so far are stored, nothing else was written and nothing was rolled
\* back.
C14_WriteErrorAborts ==
    \A f \in AddFrames :
        (f.pc = "failed" /\ f.i >= 1) =>
            /\ RelationIds(relations)
                    = (RelationIds(f.pre.relations) \ IdsIn(f.deleted_entities))
                        \cup IdsIn(f.added_entities)
            /\ \A item \in Inserted(f) :
                    Stored(entities, relations, f.userId, Triple(item)) # {}
            /\ EntityIds(f.pre.entities) \subseteq EntityIds(entities)
            /\ Len(f.deleted_entities) + Len(f.added_entities) = Len(f.log)
            /\ Len(f.log) < Len(f.toBeDeleted) + Len(f.toBeAdded)

C14_Witness ==
    \E f \in AddFrames :
        /\ f.pc = "failed"
        /\ f.i = 2
        /\ IdsIn(f.deleted_entities) # {}
        /\ IdsIn(f.added_entities) \ RelationIds(f.pre.relations) # {}
        /\ relations # f.pre.relations

\* C15: an add whose filters carry no userId is rejected, whatever the oracles
\* answer, before any oracle is asked and before any store query is made.
C15_MissingUserIdRejected ==
    \A f \in AddFrames :
        f.userId = MissingUserId =>
            /\ f.pc = "failed"
            /\ f.oracle.extract = NotAsked
            /\ f.log = <<>>

\* the neighbor relations of the search of frame f that pass its privacy filter
Candidates(f) ==
    IF f.filterPrivate = "true"
    THEN SelectSeq(f.searchOutput, LAMBDA item : item.metadata.isPrivate = "false")
    ELSE f.searchOutput
\* the relevance of a triple for the query of frame f
Relevance(f, t) == bm25Score(t, f.query)

\* C16: whatever the store, the query and the limit, search returns at most 5
\* triples: the 5 most relevant of the candidates that pass the privacy filter
\* (all of them when there are fewer), most relevant first; it returns an
\* empty list, and no error, when no neighbor relation was fetched.
C16_TopFive ==
    \A f \in SearchFrames :
        f.pc = "done" =>
            LET cand == Candidates(f)
                n == Len(f.result)
            IN  /\ n <= 5
                /\ n = IF Len(cand) < 5 THEN Len(cand) ELSE 5
                /\ \A i \in 1..n : Triple(f.result[i]) \in Triples(cand)
                /\ \A i, j \in 1..n :
                        i < j => Relevance(f, Triple(f.result[i]))
                                    >= Relevance(f, Triple(f.result[j]))
                /\ \A k \in 1..Len(cand) :
                        (n > 0 /\ Relevance(f, Triple(cand[k]))
                                    > Relevance(f, Triple(f.result[n])))
                            => Triple(cand[k]) \in Triples(f.result)
                /\ f.searchOutput = <<>> => f.result = <<>>

C16_Witness ==
    \E f \in SearchFrames :
        /\ f.pc = "done"
        /\ Len(Candidates(f)) > 5
        /\ Len(f.result) = 5
        /\ Relevance(f, Triple(f.result[1])) > Relevance(f, Triple(f.result[5]))
        /\ Relevance(f, Triple(Candidates(f)[1])) < Relevance(f, Triple(f.result[1]))

\* C17: the limit argument of search bounds the candidates handed to the
\* reranker: a search with limit L reranks at most L neighbor relations.
C17_LimitBoundsCandidates ==
    \A f \in SearchFrames :
        f.pc = "done" => Len(Candidates(f)) <= f.limit

\* C18: every neighbor relation fetched belongs to a stored entity whose cosine
\* similarity (1 - cosine distance, here 100 - distance on the scale of 100) to
\* the mentioned entity's embedding is at least the threshold 0.7, and the
\* relations fetched for one mentioned entity come most similar entity first.
C18_SimilarEntitiesOnly ==
    \A f \in SearchFrames :
        f.pc = "done" =>
            /\ \A k \in 1..Len(f.searchOutput) :
                    \E e \in entities, i \in 1..Len(f.embeds) :
                        /\ f.embeds[i] # EmbedFail
                        /\ e.user_id = f.userId
                        /\ e.id \in {f.searchOutput[k].source_id,
                                      f.searchOutput[k].destination_id}
                        /\ f.searchOutput[k].similarity
                                = cosine_distance(e.embedding, f.embeds[i])
                        /\ 100 - cosine_distance(e.embedding, f.embeds[i]) >= 70
            /\ Len(f.embeds) = 1 =>
                    \A j, k \in 1..Len(f.searchOutput) :
                        j < k => 100 - f.searchOutput[j].similarity
                                    >= 100 - f.searchOutput[k].similarity

\* the expected properties a provisioned type lacks
Lacking(type, expected) == IF type.exists THEN expected \ type.properties ELSE {}

\* C19: no add, search, getAll or deleteAll call does oracle or store work
\* unless the schema validation of the instance has completed successfully:
\* whenever a call is in flight or has finished, the validation has passed.
C19_ValidatedBeforeServing ==
    \A c \in Callers : call[c].op # IdleFrame.op => boot.graph = "ok"

\* C20: for every expected property of the flat memory collection, the graph
\* entity type and the graph relation type, an initialization that completed
\* on a store whose type lacks the property has failed with an error that
\* names the property.
C20_MissingPropertyNamed ==
    /\ boot.graph # "pending" =>
        /\ \A q \in Lacking(boot.schema.entity, EntityProps) :
                /\ boot.graph = "failed"
                /\ boot.graphError = [type |-> "GraphEntity", property |-> q]
        /\ \A q \in Lacking(boot.schema.relation, RelationProps) :
                /\ boot.graph = "failed"
                /\ boot.graphError = [type |-> "GraphRelation", property |-> q]
    /\ boot.flat # "pending" =>
        \A q \in Lacking(boot.schema.memory, MemoryProps) :
            /\ boot.flat = "failed"
            /\ boot.flatError = [type |-> "Memory", property |-> q]
\* the value a field of the updated row must hold: the supplied one, or the
\* one it had
Expected(supplied, old) == IF supplied = "undefined" THEN old ELSE supplied

\* C21: update(id, vector, payload) sets exactly the supplied fields of record
\* id (a supplied content is what get(id) then returns), leaves its other
\* fields and every other record unchanged, and refreshes updated_at on every
\* call, whatever subset of vector and payload is supplied.
C21_UpdateFrame ==
    LET u == vectors.last
    IN  (u.op = "update" /\ u.id \in Held(u.pre)) =>
            /\ Held(vectors.rows) = Held(u.pre)
            /\ \A id \in Held(u.pre) \ {u.id} :
                    Row(vectors.rows, id) = Row(u.pre, id)
            /\ LET old == Row(u.pre, u.id)
                   new == Row(vectors.rows, u.id)
               IN  /\ new.embedding = Expected(u.vector, old.embedding)
                   /\ new.content = Expected(u.payload.data, old.content)
                   /\ get(vectors.rows, u.id) = Expected(u.payload.data, old.content)
                   /\ new.hash = Expected(u.payload.hash, old.hash)
                   /\ new.user_id = Expected(u.payload.user_id, old.user_id)
                   /\ new.created_at = old.created_at
                   /\ new.updated_at = u.at
\* C22: for each triple of the deletion list, add removes exactly the relations
\* that carry the triple's source name, target name and relationship type
\* between two entities of the caller's user_id: rows of other scopes with the
\* same names stay, and a triple that matches no row removes nothing and does
\* not fail the call.
C22_DeleteStepScoped ==
    [][\A c \in Callers :
        (call[c].pc = "delete" /\ call'[c] # call[c]) =>
            LET f == call[c]
                matching == Stored(entities, relations, f.userId,
                                   Triple(f.toBeDeleted[f.i]))
            IN  /\ relations' = relations \ matching
                /\ entities' = entities
                /\ call'[c].pc # "failed"
                /\ call'[c].deleted_entities =
                        Append(f.deleted_entities, {r.id : r \in matching})]_vars

C22_Witness ==
    \E f \in AddFrames :
        /\ Len(f.deleted_entities) = 1
        /\ f.deleted_entities[1] # {}
        /\ Stored(entities, relations, f.userId, Triple(f.toBeDeleted[1])) = {}
        /\ \E other \in Users \ {f.userId} :
                Stored(entities, relations, other, Triple(f.toBeDeleted[1])) # {}
\* a token without an uppercase letter and without a space
Canonical(t) == \A i \in 1..Len(t) : t[i] \notin {"A", "P", "L", "Z", "E", " "}
CanonicalItem(x) ==
    Canonical(x.source) /\ Canonical(x.relationship) /\ Canonical(x.destination)

\* C23: every entity name and relationship type add uses as a store key (the
\* nodes of the neighbor lookup, the delete filters, the entity and relation
\* upserts) is lowercase with underscores for spaces; normalizing twice equals
\* normalizing once; so every stored entity name and relationship type has no
\* uppercase letter and no space.
C23_KeysNormalized ==
    /\ \A f \in AddFrames :
        /\ \A i \in 1..Len(f.entityTypeMap) : Canonical(f.entityTypeMap[i][1])
        /\ \A i \in 1..Len(f.toBeDeleted) : CanonicalItem(f.toBeDeleted[i])
        /\ \A i \in 1..Len(f.toBeAdded) : CanonicalItem(f.toBeAdded[i])
    /\ \A t \in RawNames \cup RawRelTypes \cup {e.name : e \in entities} :
            normalizeToken(normalizeToken(t)) = normalizeToken(t)
    /\ \A e \in entities : Canonical(e.name)
    /\ \A r \in relations : Canonical(r.relationship_type)

C23_Witness ==
    /\ \E e \in entities : e.name = <<"p", "_", "z">>
    /\ \E r \in relations : r.relationship_type = <<"l", "_", "e">>
    /\ \E f \in AddFrames :
        /\ f.pc = "done"
        /\ \E i \in 1..Len(f.toBeDeleted) : f.toBeDeleted[i].source = <<"p", "_", "z">>
\* the neighbor rows of the nodes at the given positions, in node order
NeighborsOf(ents, rels, nodes, at, userId) ==
    Flatten([i \in 1..Len(nodes) |->
                IF i \in at
                THEN neighborQuery(ents, rels, embed("m1", nodes[i]), userId,
                                   defaultLimit)
                ELSE <<>>])
\* the calls that got as far as their neighbor fetch, with the store they read
Fetches ==
    {[f |-> f, nodes |-> mapKeys(f.entityTypeMap), embeds |-> f.oracle.embeds,
      ents |-> f.pre.entities, rels |-> f.pre.relations] :
        f \in {g \in AddFrames : g.oracle # <<>> /\ g.i >= 1}}
    \cup {[f |-> f, nodes |-> mapKeys(f.entityTypeMap), embeds |-> f.embeds,
           ents |-> entities, rels |-> relations] :
            f \in {g \in SearchFrames : g.pc = "done"}}

\* C24: a failed or timed out embedding during the neighbor fetch skips the
\* lookup of that mentioned entity only: the call has the neighbors of every
\* other mentioned entity, and no add or search fails because an embedding
\* failed (a call that failed did so at a write, after its fetch).
C24_FailedEmbeddingSkipsOneNode ==
    /\ \A c \in Callers :
            call[c].pc = "failed" => (call[c].op = "add" /\ call[c].i >= 1)
    /\ \A x \in Fetches :
        /\ Len(x.embeds) = Len(x.nodes)
        /\ x.f.searchOutput =
                NeighborsOf(x.ents, x.rels, x.nodes,
                            {i \in 1..Len(x.nodes) : x.embeds[i] # EmbedFail},
                            x.f.userId)

C24_Witness ==
    \E x \in Fetches :
        /\ x.f.op = "add"
        /\ Len(x.nodes) = 2
        /\ x.embeds[1] = EmbedFail
        /\ x.embeds[2] # EmbedFail
        /\ x.f.searchOutput # <<>>
        /\ x.f.pc = "done"
\* C25: when add returns, every relation in the relations field of its result
\* (the proposed relations) is stored in the caller's scope and added_entities
\* has one entry per listed relation: no proposed relation is left unwritten.
C25_ResultRelationsStored ==
    \A f \in AddFrames :
        f.pc = "done" =>
            /\ \A t \in Triples(f.toBeAdded) :
                    Stored(entities, relations, f.userId, t) # {}
            /\ Len(f.added_entities) = Len(f.toBeAdded)
\* the positions of the classification response that are about the triple of
\* the i-th relation the add sent
ClassifiedAs(f, i) ==
    {k \in 1..Len(f.oracle.privacy.about) :
        Triple(f.toBeAdded[f.oracle.privacy.about[k]]) = Triple(f.toBeAdded[i])}

\* C26: the privacy flag of each proposed relation is a flag the classification
\* oracle returned for that same (source, relation, target), and the default
\* false when the oracle returned none for it: never the flag of another
\* relation, whatever the order and the number of the classifications.
C26_FlagOfSameRelation ==
    \A f \in AddFrames :
        (f.oracle # <<>> /\ f.toBeAdded # <<>>) =>
            \A i \in 1..Len(f.toBeAdded) :
                IF ClassifiedAs(f, i) = {}
                THEN f.toBeAdded[i].metadata.isPrivate = "false"
                ELSE \E k \in ClassifiedAs(f, i) :
                        f.toBeAdded[i].metadata.isPrivate = f.oracle.privacy.relations[k]
\* C27: the metadata of a stored relation, its privacy flag with it, never
\* changes while the row lives: an add that proposes an already stored triple
\* under another classification leaves the row as it is.
C27_PrivacyFixedAtCreation ==
    [][\A r \in relations : \A q \in relations' :
            r.id = q.id => q.metadata = r.metadata]_vars

C27_Witness ==
    \E f \in AddFrames :
        /\ f.pc = "done"
        /\ \E item \in Inserted(f) :
            \E r \in Stored(f.pre.entities, f.pre.relations, f.userId, Triple(item)) :
                /\ r.metadata.isPrivate # item.metadata.isPrivate
                /\ r \in relations
\* C28: every relation an add deletes is one of the neighbor relations the same
\* add fetched and showed to the deletion oracle: a deletion item whose triple
\* is not among the fetched rows removes nothing.
C28_DeletesOnlyFetched ==
    \A f \in AddFrames :
        \A j \in 1..Len(f.deleted_entities) :
            f.deleted_entities[j] # {} =>
                /\ Triple(f.toBeDeleted[j]) \in Triples(f.searchOutput)
                /\ f.deleted_entities[j] \subseteq
                        {f.searchOutput[n].relation_id : n \in 1..Len(f.searchOutput)}
\* a list without two equal triples
Distinct(list) ==
    \A m, n \in 1..Len(list) : Triple(list[m]) = Triple(list[n]) => m = n

\* C29: search returns each stored relation at most once: neither the rows it
\* fetched for the reranker nor the list it returns holds one (source,
\* relationship, destination) triple twice.
C29_NoDuplicateResults ==
    \A f \in SearchFrames :
        f.pc = "done" => (Distinct(f.searchOutput) /\ Distinct(f.result))
DeleteAllFrames == {call[c] : c \in {k \in Callers : call[k].op = "deleteAll"}}

\* C30: however a deleteAll and a concurrent add of one scope interleave, the
\* deleteAll does not fail with a store error (also when the add writes a
\* relation between the relation delete and the entity delete) and no stored
\* relation references an entity that is gone.
C30_DeleteAllUnderAdd ==
    /\ \A f \in DeleteAllFrames : f.pc # "failed"
    /\ \A r \in relations : {r.source, r.target} \subseteq EntityIds(entities)
====
